---- MODULE Spec2Model ----
(***************************************************************************)
(* A model of syster-cli (src/src/lib.rs, src/src/main.rs): the            *)
(* orchestration of workspace loading, diagnostic aggregation and          *)
(* interchange export, import and decompilation around the external        *)
(* analysis engine.                                                        *)
(*                                                                         *)
(* One behaviour is one run of main: run_analysis, export_model,           *)
(* export_ast, import_model, the import into a workspace, or the           *)
(* decompile command, and the exit code it ends with.  The file            *)
(* system, the arguments and the answers of the external engine are the    *)
(* inputs; they are drawn from bounded sets.                               *)
(***************************************************************************)
EXTENDS Integers, Sequences, FiniteSets, TLC

VARIABLES
    cli,          \* the arguments (Cli of main.rs), and the pipeline main runs
    fs,           \* the file system the call runs against
    engine,       \* size of the engine's answers: most diagnostics, farthest position
    pc,           \* position of the call
    host,         \* AnalysisHost: the registered files, in registration order
    walk,         \* the entries WalkDir has still to yield
    walked,       \* the entries WalkDir has yielded while the files are being loaded
    after,        \* where the call continues once the current load_directory returns
    parse_log,    \* the parse errors reported on stderr, one record per load_file
    metadata,     \* the original identities the host holds, by qualified name
    index,        \* the symbols of the index built by host.analysis()
    checked,      \* what check_file answered for each file
    diagnostics,  \* the value collect_diagnostics returned
    result,       \* what the call returned: Ok(..) or Err(..)
    output,       \* the model handed to the codec by the export
    codec,        \* the codec an import or a decompilation decoded the bytes with
    decoded,      \* the interchange model the codec returned
    imported,     \* the symbols added to the host by add_symbols_from_model
    calls,        \* the calls of import_model_into_host made on the host
    written,      \* the files the command has written
    exit          \* the exit code of the process, once main has returned

vars == <<cli, fs, engine, pc, host, walk, walked, after, parse_log, metadata,
          index, checked, diagnostics, result, output, codec, decoded, imported,
          calls, written, exit>>

----------------------------------------------------------------------------
(* Bounds of the model. *)

MaxOddities == 1      \* irregular nodes (unreadable, denied, ...) in one file system
MaxParseErrors == 2   \* parse errors the engine returns for one file
MaxDiags == 2         \* diagnostics the engine reports in one run
MaxPos == 1           \* largest 0-indexed line plus column the engine reports
MaxRels == 2          \* relationships in one interchange model
MaxImports == 2       \* calls of import_model_into_host on one host

----------------------------------------------------------------------------
(* Strings are sequences of characters, so that comparison, extension and  *)
(* containment are computed as the code computes them.                     *)

\* The characters that occur, in ASCII order.
Alphabet ==
    <<".", "/", "B", "a", "b", "c", "d", "e", "i", "k", "l", "m", "r",
      "s", "t", "w", "x", "y">>

Ord == [c \in {Alphabet[i] : i \in 1..Len(Alphabet)} |->
            CHOOSE i \in 1..Len(Alphabet) : Alphabet[i] = c]

\* Rust's Ord for str: bytewise lexicographic.  -1, 0 or 1.
RECURSIVE StrCmp(_, _)
StrCmp(s, t) ==
    IF s = <<>> THEN (IF t = <<>> THEN 0 ELSE -1)
    ELSE IF t = <<>> THEN 1
    ELSE IF Ord[Head(s)] < Ord[Head(t)] THEN -1
    ELSE IF Ord[Head(s)] > Ord[Head(t)] THEN 1
    ELSE StrCmp(Tail(s), Tail(t))

\* str::contains
Contains(s, pat) ==
    \E i \in 0..(Len(s) - Len(pat)) : SubSeq(s, i + 1, i + Len(pat)) = pat

\* Option<T>: None is <<>>, Some(x) is <<x>>.
None == <<>>
Some(x) == <<x>>

\* Index of the last occurrence of c in s, 0 when there is none.
LastIndexOf(s, c) ==
    IF \E i \in 1..Len(s) : s[i] = c
    THEN CHOOSE i \in 1..Len(s) : s[i] = c /\ \A j \in (i + 1)..Len(s) : s[j] # c
    ELSE 0

\* Path::file_name: the last component.
FileName(p) == SubSeq(p, LastIndexOf(p, "/") + 1, Len(p))

\* Path::extension: the part of the file name after its last dot; None when
\* the name has no dot, or only a leading one.
Extension(p) ==
    LET name == FileName(p)
        dot == LastIndexOf(name, ".")
    IN  IF name = <<".", ".">> \/ dot <= 1 THEN None
        ELSE Some(SubSeq(name, dot + 1, Len(name)))

Join(dir, name) == dir \o <<"/">> \o name

\* Path::with_extension: the extension of the file name, if it has one, is
\* replaced by ext; a path without a file name is returned as it is.
with_extension(p, ext) ==
    IF p = <<>> \/ FileName(p) = <<".", ".">> THEN p
    ELSE IF Extension(p) = None THEN p \o <<".">> \o ext
    ELSE SubSeq(p, 1, Len(p) - Len(Extension(p)[1])) \o ext

\* str::to_lowercase, on the letters that occur in format names.
UpperCase == <<"A", "I", "K", "M", "P", "R", "X">>
LowerCase == <<"a", "i", "k", "m", "p", "r", "x">>
to_lowercase(s) ==
    [i \in 1..Len(s) |->
        IF \E k \in 1..Len(UpperCase) : UpperCase[k] = s[i]
        THEN LowerCase[CHOOSE k \in 1..Len(UpperCase) : UpperCase[k] = s[i]]
        ELSE s[i]]

----------------------------------------------------------------------------
(* The file system: a fixed tree, the standard-library directories that    *)
(* exist, and a few irregular nodes.                                       *)

SysmlExt == <<"s", "y", "s", "m", "l">>
KermlExt == <<"k", "e", "r", "m", "l">>
TxtExt == <<"t", "x", "t">>
SysmlLibrary == SysmlExt \o <<".">> \o <<"l", "i", "b", "r", "a", "r", "y">>

\* The user's tree: w/{a.sysml, c.txt, d/{e.kerml}}.
DirW == <<"w">>
FileA == Join(DirW, <<"a", ".">> \o SysmlExt)
FileC == Join(DirW, <<"c", ".">> \o TxtExt)
DirD == Join(DirW, <<"d">>)
FileE == Join(DirD, <<"e", ".">> \o KermlExt)
Missing == <<"x">>

\* The standard library: a custom directory and the default locations.
CustomLib == <<"l", "i", "b">>
default_paths ==
    << SysmlLibrary,
       <<".", ".", "/">> \o SysmlLibrary,
       <<".", ".", "/", "b", "a", "s", "e", "/">> \o SysmlLibrary >>
DefaultLibs == {default_paths[i] : i \in 1..Len(default_paths)}
LibDirs == {CustomLib} \cup DefaultLibs
LibFile(dir) == Join(dir, <<"B", ".">> \o KermlExt)

Dirs == {DirW, DirD} \cup LibDirs
Files == {FileA, FileC, FileE} \cup {LibFile(d) : d \in LibDirs}

Children(dir) ==
    IF dir = DirW THEN {FileA, FileC, DirD}
    ELSE IF dir = DirD THEN {FileE}
    ELSE IF dir \in LibDirs THEN {LibFile(dir)}
    ELSE {}

\* What may be irregular about a node.
Oddities ==
    {[node |-> f, kind |-> k] : f \in Files, k \in {"unreadable", "syntax", "empty"}}
        \cup {[node |-> d, kind |-> "denied"] : d \in Dirs}

\* The sets of at most n oddities.
RECURSIVE OddSets(_)
OddSets(n) ==
    IF n = 0 THEN {{}}
    ELSE OddSets(n - 1) \cup {s \cup {o} : s \in OddSets(n - 1), o \in Oddities}

\* present: the standard-library directories that exist; odd: the
\* irregular nodes; sidecar: a metadata file lies next to the input.
FileSystems ==
    {[present |-> p, odd |-> o, sidecar |-> m] :
        p \in SUBSET LibDirs, o \in OddSets(MaxOddities), m \in BOOLEAN}

\* Element identities: the ones interchange files carry, and a reference
\* that no element answers to.
U1 == <<"u", "1">>
U2 == <<"u", "2">>
U9 == <<"u", "9">>

\* An identity is either an original one or one minted for a qualified name.
Original(u) == [minted |-> FALSE, of |-> u]
Minted(qn) == [minted |-> TRUE, of |-> qn]

\* The sidecar next to the input: for a qualified name, the original
\* identity of its element.
Sidecar == {[qualified_name |-> FileName(FileA), id |-> U1]}
SidecarNames == {e.qualified_name : e \in Sidecar}

\* The interchange files: the extension tells the format, or does not, and
\* the bytes are in the encoding of one codec.
XmiExt == <<"x", "m", "i">>
KparExt == <<"k", "p", "a", "r">>
ModelXmi == <<"m", ".">> \o XmiExt
ModelKpar == <<"m", ".">> \o KparExt
ModelTxt == <<"m", ".">> \o TxtExt
ModelBare == <<"m">>
ModelFiles == {ModelXmi, ModelKpar, ModelTxt, ModelBare}
Encoding(p) == IF p = ModelKpar THEN "Kpar" ELSE "Xmi"

\* The interchange models a file may hold: one or two elements, and up to
\* MaxRels relationships, whose ends may not be the identity of an element.
PackageP == [id |-> Original(U1), qualified_name |-> <<"P">>]
PartQ == [id |-> Original(U2), qualified_name |-> <<"P", ":", ":", "Q">>]
Ends ==
    {[source |-> Original(a), target |-> Original(b)] :
        a \in {U1, U9}, b \in {U2, U9}}
Models ==
    {[elements |-> es, relationships |-> rs] :
        es \in {<<PackageP>>, <<PackageP, PartQ>>},
        rs \in UNION {[1..k -> Ends] : k \in 0..MaxRels}}
NoModel == [elements |-> <<>>, relationships |-> <<>>]

\* The paths the decompile command may write to, and the sets of them that
\* cannot be written.
MetadataExt == <<"m", "e", "t", "a", "d", "a", "t", "a", ".", "j", "s", "o", "n">>
OutSysml == <<"o", ".">> \o SysmlExt
OutBare == <<"o">>
Outputs == {None, Some(OutSysml), Some(OutBare)}
Targets ==
    UNION {{t, with_extension(t, MetadataExt)} :
              t \in {with_extension(i, SysmlExt) : i \in ModelFiles}
                        \cup {OutSysml, OutBare}}
ReadOnlySets == {S \in SUBSET Targets : Cardinality(S) <= MaxOddities}

\* The whole file system: the tree, the model the interchange files hold,
\* and the paths that cannot be written.
FileSystem(tree, content, readonly) ==
    [present |-> tree.present, odd |-> tree.odd, sidecar |-> tree.sidecar,
     content |-> content, readonly |-> readonly]

Is(f, node, kind) == [node |-> node, kind |-> kind] \in f.odd

\* Path::exists, Path::is_dir, Path::is_file
Exists(f, p) ==
    \/ p \in {DirW, DirD, FileA, FileC, FileE}
    \/ p \in f.present
    \/ \E d \in f.present : p = LibFile(d)
IsDir(f, p) == Exists(f, p) /\ p \in Dirs
IsFile(f, p) == Exists(f, p) /\ p \in Files

\* The sequences over a finite set S that hold each element once.
Perms(S) ==
    {s \in [1..Cardinality(S) -> S] : \A i, j \in 1..Cardinality(S) : s[i] = s[j] => i = j}

RECURSIVE Flatten(_)
Flatten(ss) == IF ss = <<>> THEN <<>> ELSE Head(ss) \o Flatten(Tail(ss))

\* WalkDir::new(root).follow_links(true): every order in which it may yield
\* the entries under root.  A directory comes before its contents; siblings
\* come in the order of the file system, which is any order; a directory
\* that cannot be read yields itself and then an error.
RECURSIVE Walks(_, _)
Walks(f, p) ==
    IF p \in Files THEN {<<[ok |-> TRUE, path |-> p]>>}
    ELSE IF Is(f, p, "denied")
    THEN {<<[ok |-> TRUE, path |-> p], [ok |-> FALSE, path |-> p]>>}
    ELSE LET kids == Children(p)
         IN  UNION {
                 {<<[ok |-> TRUE, path |-> p]>> \o Flatten(parts) :
                     parts \in {ps \in [1..Len(order) -> UNION {Walks(f, k) : k \in kids}] :
                                   \A i \in 1..Len(order) : ps[i] \in Walks(f, order[i])}}
                 : order \in Perms(kids)}

----------------------------------------------------------------------------
(* The external engine, at its interface.                                  *)

Severities == {"Error", "Warning", "Info", "Hint"}

\* The kinds of diagnostic the engine reports: the extent of the span, the
\* severity, the message and the optional code.
Shapes ==
    { [dl |-> 0, dc |-> 1, severity |-> "Error", message |-> "unresolved", code |-> Some("E001")],
      [dl |-> 0, dc |-> 2, severity |-> "Warning", message |-> "unused", code |-> Some("W001")],
      [dl |-> 1, dc |-> 0, severity |-> "Info", message |-> "note", code |-> None],
      [dl |-> 0, dc |-> 0, severity |-> "Hint", message |-> "hint", code |-> None] }

\* hir::Diagnostic, 0-indexed, starting at most maxPos lines and columns
\* from the start of the file.
EngineDiags(maxPos) ==
    UNION {{[start_line |-> l, start_col |-> c, end_line |-> l + s.dl, end_col |-> c + s.dc,
             severity |-> s.severity, message |-> s.message, code |-> s.code] :
               c \in 0..(maxPos - l), s \in Shapes} : l \in 0..maxPos}

SeqsUpTo(S, n) == UNION {[1..k -> S] : k \in 0..n}

Range(s) == {s[i] : i \in 1..Len(s)}

\* For the files h, one sequence over D each, with at most n elements in all.
RECURSIVE Shares(_, _, _)
Shares(h, D, n) ==
    IF h = <<>> THEN {<<>>}
    ELSE UNION {{<<s>> \o rest : rest \in Shares(Tail(h), D, n - Len(s))} :
                   s \in SeqsUpTo(D, n)}

\* check_file for every registered file: each file's diagnostics, in the
\* order the engine reports them, with at most e.max_diags in all.
CheckAnswers(h, e) ==
    {[p \in Range(h) |-> share[CHOOSE i \in 1..Len(h) : h[i] = p]] :
        share \in Shares(h, EngineDiags(e.max_pos), e.max_diags)}

\* The parse errors set_file_content may return for a file.
ParseErrorCounts(f, p) == IF Is(f, p, "syntax") THEN 1..MaxParseErrors ELSE {0}

\* AnalysisHost::set_file_content: the path is registered once; a second
\* registration replaces the content.
set_file_content(h, p) == IF p \in Range(h) THEN h ELSE Append(h, p)

\* The symbols the index holds for a file: one definition, named after the
\* file here, none for an empty file.  The definition of the user's a.sysml
\* specializes the library's.  element_id is the identity the host holds
\* for the qualified name, if a sidecar gave it one.
SymbolsOf(f, meta, p) ==
    IF Is(f, p, "empty") THEN <<>>
    ELSE <<[qualified_name |-> FileName(p), file |-> p,
            supertypes |-> IF p = FileA THEN <<FileName(LibFile(CustomLib))>> ELSE <<>>,
            element_id |->
                IF \E e \in meta : e.qualified_name = FileName(p)
                THEN Some((CHOOSE e \in meta : e.qualified_name = FileName(p)).id)
                ELSE None]>>

RECURSIVE all_symbols(_, _, _)
all_symbols(f, meta, h) ==
    IF h = <<>> THEN <<>>
    ELSE SymbolsOf(f, meta, Head(h)) \o all_symbols(f, meta, Tail(h))

----------------------------------------------------------------------------
(* Workspace loading (lib.rs, load_input .. load_stdlib_files).            *)

\* Mutant of is_sysml_file: the kerml extension is forgotten.
is_sysml_file_sysml_only(f, p) ==
    IsFile(f, p) /\ Extension(p) = Some(SysmlExt)

\* is_sysml_file
is_sysml_file(f, p) ==
    IsFile(f, p) /\ Extension(p) \in {Some(SysmlExt), Some(KermlExt)}

\* Mutant of load_file: parse errors fail the load.
load_file_strict(f, h, log, p, n) ==
    IF Is(f, p, "unreadable") \/ n > 0
    THEN [ok |-> FALSE, host |-> h, log |-> log, err |-> "Failed to read"]
    ELSE [ok |-> TRUE, host |-> set_file_content(h, p),
          log |-> Append(log, [path |-> p, errors |-> n]), err |-> ""]

\* Mutant of load_file: a file that cannot be read is skipped.
load_file_lenient(f, h, log, p, n) ==
    IF Is(f, p, "unreadable")
    THEN [ok |-> TRUE, host |-> h, log |-> log, err |-> ""]
    ELSE [ok |-> TRUE, host |-> set_file_content(h, p),
          log |-> Append(log, [path |-> p, errors |-> n]), err |-> ""]

\* load_file with n parse errors returned by the engine: Err when the file
\* cannot be read, else the file is registered and the errors are reported.
load_file(f, h, log, p, n) ==
    IF Is(f, p, "unreadable")
    THEN [ok |-> FALSE, host |-> h, log |-> log, err |-> "Failed to read"]
    ELSE [ok |-> TRUE, host |-> set_file_content(h, p),
          log |-> Append(log, [path |-> p, errors |-> n]), err |-> ""]

\* Mutant of ResolveStdlib: a custom path that does not exist falls back to
\* the default locations.
ResolveStdlibFallback(f, custom_path) ==
    IF custom_path # None /\ Exists(f, custom_path[1])
    THEN [ok |-> TRUE, dir |-> custom_path]
    ELSE IF \E i \in 1..Len(default_paths) : Exists(f, default_paths[i])
         THEN [ok |-> TRUE,
               dir |-> Some(default_paths[
                   CHOOSE i \in 1..Len(default_paths) :
                       /\ Exists(f, default_paths[i])
                       /\ \A j \in 1..(i - 1) : ~Exists(f, default_paths[j])])]
         ELSE [ok |-> TRUE, dir |-> None]

\* load_stdlib_files, up to its call of load_directory: the directory to
\* load, None when there is none, or Err.
ResolveStdlib(f, custom_path) ==
    IF custom_path # None
    THEN IF Exists(f, custom_path[1])
         THEN [ok |-> TRUE, dir |-> custom_path]
         ELSE [ok |-> FALSE, dir |-> None]
    ELSE IF \E i \in 1..Len(default_paths) : Exists(f, default_paths[i])
         THEN [ok |-> TRUE,
               dir |-> Some(default_paths[
                   CHOOSE i \in 1..Len(default_paths) :
                       /\ Exists(f, default_paths[i])
                       /\ \A j \in 1..(i - 1) : ~Exists(f, default_paths[j])])]
         ELSE [ok |-> TRUE, dir |-> None]

Err(msg) == Some([ok |-> FALSE, err |-> msg])

\* Mutant of Loaded: run_analysis collects the diagnostics without the
\* index being rebuilt over the files it loaded.
LoadedUnindexed(mode) ==
    IF mode = "analysis" THEN "collect" ELSE IF mode = "export" THEN "metadata" ELSE "analysis"

\* Mutant of Loaded: export_model builds the index without looking for a
\* sidecar.
LoadedWithoutSidecar(mode) == "analysis"

\* Where a call goes once its files are loaded: export_model looks for a
\* sidecar first.
Loaded(mode) == IF mode = "export" THEN "metadata" ELSE "analysis"

\* The mode flags of the command line; --export is the one with a value.
Flags == {"decompile", "import", "import_workspace", "export", "export_ast", "json"}

TypeOK ==
    /\ pc \in {"main", "start", "input", "walk", "metadata", "analysis", "collect",
               "result", "export", "export_ast", "import_host", "export_host", "write",
               "done", "failed"}
    /\ cli.mode \in {"", "analysis", "export", "export_ast", "import", "import_workspace",
                     "decompile"}
    /\ cli.flags \subseteq Flags
    /\ exit \in {None, Some("SUCCESS"), Some("FAILURE")}
    /\ Range(host) \subseteq Files
    /\ calls \in 0..MaxImports

\* The names a format may be asked for by.
JsonldName == <<"j", "s", "o", "n", "l", "d">>
JsonLdName == <<"j", "s", "o", "n", "-", "l", "d">>
JsonName == <<"j", "s", "o", "n">>
YamlName == <<"y", "a", "m", "l">>
FormatNames ==
    {XmiExt, <<"X", "M", "I">>, <<"X", "m", "i">>, KparExt, <<"K", "P", "A", "R">>,
     JsonldName, JsonLdName, JsonName, YamlName, <<>>}

\* The calls and file systems a behaviour starts from.
StdlibChoices ==
    {[load_stdlib |-> FALSE, stdlib_path |-> None, present |-> LibDirs]}
        \cup {[load_stdlib |-> TRUE, stdlib_path |-> None, present |-> p] :
                p \in SUBSET DefaultLibs}
        \cup {[load_stdlib |-> TRUE, stdlib_path |-> Some(CustomLib), present |-> p] :
                p \in {DefaultLibs, LibDirs}}

Modes ==
    {[mode |-> "analysis", format |-> <<>>, self_contained |-> FALSE]}
        \cup {[mode |-> "export", format |-> XmiExt, self_contained |-> b] : b \in BOOLEAN}

\* The arguments of a run that loads source files.
LoadCli(m, i, load_stdlib, stdlib_path) ==
    [mode |-> "", flags |-> IF m.mode \in {"export", "export_ast"} THEN {m.mode} ELSE {},
     format |-> m.format, self_contained |-> m.self_contained,
     input |-> i, load_stdlib |-> load_stdlib, stdlib_path |-> stdlib_path,
     override |-> None, output |-> None, export |-> m.mode = "export"]

Inputs == {DirW, FileA, FileC, Missing}

InitRest ==
    /\ pc = "main"
    /\ host = <<>>
    /\ walk = <<>>
    /\ walked = <<>>
    /\ after = ""
    /\ parse_log = <<>>
    /\ metadata = {}
    /\ index = <<>>
    /\ checked = <<>>
    /\ diagnostics = <<>>
    /\ result = None
    /\ output = None
    /\ codec = None
    /\ decoded = None
    /\ imported = <<>>
    /\ calls = 0
    /\ written = {}
    /\ exit = None

\* Runs over source files, in every file system.
InitLoad ==
    /\ \E m \in Modes, i \in Inputs, s \in StdlibChoices :
        /\ cli = LoadCli(m, i, s.load_stdlib, s.stdlib_path)
        /\ \E f \in FileSystems :
            /\ f.present = s.present
            /\ \A o \in f.odd : Exists(f, o.node)
            /\ f.sidecar => m.mode = "export"
            /\ fs = FileSystem(f, NoModel, {})
    /\ engine = [max_diags |-> 1, max_pos |-> 0]
    /\ InitRest

\* A clean directory, and an engine with more to report.
InitAggLoad ==
    /\ \E m \in Modes : cli = LoadCli(m, DirW, FALSE, None)
    /\ fs = FileSystem([present |-> {}, odd |-> {}, sidecar |-> FALSE], NoModel, {})
    /\ engine = [max_diags |-> MaxDiags, max_pos |-> MaxPos]
    /\ InitRest

\* The arguments of a run over an interchange file.
IxModes ==
    {[mode |-> "import", export |-> FALSE, self_contained |-> FALSE],
     [mode |-> "decompile", export |-> FALSE, self_contained |-> FALSE],
     [mode |-> "import_workspace", export |-> FALSE, self_contained |-> FALSE]}
        \cup {[mode |-> "import_workspace", export |-> TRUE, self_contained |-> b] :
                  b \in BOOLEAN}

IxCli(m, i, override, out, load_stdlib) ==
    [mode |-> "", flags |-> {m.mode} \cup (IF m.export THEN {"export"} ELSE {}),
     format |-> IF m.export THEN XmiExt ELSE <<>>,
     self_contained |-> m.self_contained,
     input |-> i, load_stdlib |-> load_stdlib, stdlib_path |-> None,
     override |-> override, output |-> out, export |-> m.export]

Overrides ==
    {None, Some(XmiExt), Some(<<"K", "P", "A", "R">>), Some(JsonName), Some(YamlName)}

\* Runs over an interchange file: every input, override and model.
InitInterchange ==
    /\ \E m \in IxModes, i \in ModelFiles \cup {Missing}, ov \in Overrides,
          out \in Outputs, ro \in ReadOnlySets, lib \in BOOLEAN, content \in Models :
        /\ m.mode # "decompile" => out = None /\ ro = {}
        /\ m.mode # "import_workspace" => ~lib
        /\ cli = IxCli(m, i, ov, out, lib)
        /\ fs = FileSystem([present |-> IF lib THEN {default_paths[1]} ELSE {},
                            odd |-> {}, sidecar |-> FALSE], content, ro)
    /\ engine = [max_diags |-> 1, max_pos |-> 0]
    /\ InitRest

\* One run over an interchange file for each mode.
InitInterchangeFew ==
    /\ \E m \in IxModes :
        cli = IxCli(m, ModelXmi, None, None, FALSE)
    /\ fs = FileSystem([present |-> {}, odd |-> {}, sidecar |-> FALSE],
                       [elements |-> <<PackageP, PartQ>>,
                        relationships |-> <<[source |-> Original(U1),
                                             target |-> Original(U2)]>>],
                       {})
    /\ engine = [max_diags |-> 1, max_pos |-> 0]
    /\ InitRest

\* Runs over the source files of a clean tree, under every format name.
InitLoadFormats ==
    /\ \E format \in FormatNames, sc \in BOOLEAN, i \in {DirW, FileA},
          lib \in BOOLEAN, side \in BOOLEAN :
        \/ /\ cli = LoadCli([mode |-> "export", format |-> format, self_contained |-> sc],
                            i, lib, IF lib THEN Some(CustomLib) ELSE None)
           /\ fs = FileSystem([present |-> {CustomLib}, odd |-> {}, sidecar |-> side],
                              NoModel, {})
        \/ /\ format = <<>> /\ ~sc /\ ~side
           /\ cli = LoadCli([mode |-> "analysis", format |-> format, self_contained |-> sc],
                            i, lib, IF lib THEN Some(CustomLib) ELSE None)
           /\ fs = FileSystem([present |-> {CustomLib}, odd |-> {}, sidecar |-> side],
                              NoModel, {})
    /\ engine = [max_diags |-> 1, max_pos |-> 0]
    /\ InitRest

\* The standard library of a run of the command: none, the first default
\* location, or a custom directory.
MainLibs ==
    {[load_stdlib |-> FALSE, stdlib_path |-> None, present |-> {}],
     [load_stdlib |-> TRUE, stdlib_path |-> None, present |-> {default_paths[1]}],
     [load_stdlib |-> TRUE, stdlib_path |-> Some(CustomLib), present |-> {CustomLib}]}

\* Runs of the command under every set of mode flags, over a directory of
\* sources or an interchange file, with and without an output path, which
\* may be one that cannot be written.
InitMain ==
    /\ \E flags \in SUBSET Flags, i \in {DirW, ModelXmi}, out \in {None, Some(OutBare)},
          ro \in {{}, {OutBare}}, lib \in MainLibs,
          odd \in {{}, {[node |-> FileA, kind |-> "empty"]}} :
        /\ ro # {} => out # None
        /\ odd # {} => i = DirW
        /\ cli = [mode |-> "", flags |-> flags,
                  format |-> IF "export" \in flags THEN XmiExt ELSE <<>>,
                  self_contained |-> FALSE, input |-> i,
                  load_stdlib |-> lib.load_stdlib, stdlib_path |-> lib.stdlib_path,
                  override |-> None, output |-> out, export |-> "export" \in flags]
        /\ fs = FileSystem([present |-> lib.present, odd |-> odd, sidecar |-> FALSE],
                           [elements |-> <<PackageP, PartQ>>,
                            relationships |-> <<[source |-> Original(U1),
                                                 target |-> Original(U2)]>>],
                           ro)
    /\ engine = [max_diags |-> 1, max_pos |-> 0]
    /\ InitRest

\* The AST export of a clean tree, and of a path that does not exist.
InitAstFew ==
    /\ \E i \in {DirW, Missing} :
        cli = LoadCli([mode |-> "export_ast", format |-> <<>>, self_contained |-> FALSE],
                      i, FALSE, None)
    /\ fs = FileSystem([present |-> {}, odd |-> {}, sidecar |-> FALSE], NoModel, {})
    /\ engine = [max_diags |-> 1, max_pos |-> 0]
    /\ InitRest

Init == InitLoad \/ InitInterchangeFew \/ InitAstFew

InitAgg == InitAggLoad \/ InitInterchangeFew \/ InitMain

InitIx == InitInterchange \/ InitLoadFormats \/ InitAstFew

\* Mutant of Pipeline: the import that validates comes before the
\* decompilation, and the AST export before the interchange export.
PipelineOtherOrder(flags) ==
    IF "import" \in flags THEN "import"
    ELSE IF "decompile" \in flags THEN "decompile"
    ELSE IF "import_workspace" \in flags THEN "import_workspace"
    ELSE IF "export_ast" \in flags THEN "export_ast"
    ELSE IF "export" \in flags THEN "export"
    ELSE "analysis"

\* main: the pipeline the flags select.  Each test returns from main, so
\* the first flag that is set, in this order, decides; --json only changes
\* how the analysis is reported.
Pipeline(flags) ==
    IF "decompile" \in flags THEN "decompile"
    ELSE IF "import" \in flags THEN "import"
    ELSE IF "import_workspace" \in flags THEN "import_workspace"
    ELSE IF "export" \in flags THEN "export"
    ELSE IF "export_ast" \in flags THEN "export_ast"
    ELSE "analysis"

\* main, its dispatch on the flags.
Main ==
    /\ pc = "main"
    /\ cli' = [cli EXCEPT !.mode = Pipeline(cli.flags)]
    /\ pc' = "start"
    /\ UNCHANGED <<fs, engine, host, walk, walked, after, parse_log, metadata, index,
                   checked, diagnostics, result, output, codec, decoded, imported,
                   calls, written, exit>>

\* run_analysis / export_model / export_ast, step 1: load the standard
\* library if requested.
LoadStdlib ==
    /\ pc = "start"
    /\ cli.mode \in {"analysis", "export", "export_ast"}
    /\ LET r == ResolveStdlib(fs, cli.stdlib_path)
       IN  IF ~cli.load_stdlib \/ (r.ok /\ r.dir = None)
           THEN /\ pc' = "input"
                /\ UNCHANGED <<walk, after, result>>
           ELSE IF ~r.ok
           THEN /\ pc' = "failed"
                /\ result' = Err("Stdlib path does not exist")
                /\ UNCHANGED <<walk, after>>
           ELSE /\ \E w \in Walks(fs, r.dir[1]) : walk' = w
                /\ pc' = "walk"
                /\ after' = "input"
                /\ UNCHANGED result
    /\ UNCHANGED <<cli, fs, engine, host, walked, parse_log, metadata, index, checked,
                   diagnostics, output,
                   codec, decoded, imported, calls, written, exit>>

\* Mutant of LoadInput: a path that does not exist is taken for a directory
\* without entries.
LoadInputMissingAsEmpty ==
    /\ pc = "input"
    /\ IF IsFile(fs, cli.input)
       THEN \E n \in ParseErrorCounts(fs, cli.input) :
               LET r == load_file(fs, host, parse_log, cli.input, n)
               IN  /\ host' = r.host
                   /\ parse_log' = r.log
                   /\ pc' = IF r.ok THEN Loaded(cli.mode) ELSE "failed"
                   /\ result' = IF r.ok THEN result ELSE Err(r.err)
                   /\ UNCHANGED <<walk, after>>
       ELSE IF IsDir(fs, cli.input)
       THEN /\ \E w \in Walks(fs, cli.input) : walk' = w
            /\ pc' = "walk"
            /\ after' = Loaded(cli.mode)
            /\ UNCHANGED <<host, parse_log, result>>
       ELSE /\ pc' = Loaded(cli.mode)
            /\ UNCHANGED <<host, parse_log, result, walk, after>>
    /\ UNCHANGED <<cli, fs, engine, walked, metadata, index, checked, diagnostics, output,
                   codec, decoded, imported, calls, written, exit>>

\* load_input
LoadInput ==
    /\ pc = "input"
    /\ IF IsFile(fs, cli.input)
       THEN \E n \in ParseErrorCounts(fs, cli.input) :
               LET r == load_file(fs, host, parse_log, cli.input, n)
               IN  /\ host' = r.host
                   /\ parse_log' = r.log
                   /\ pc' = IF r.ok THEN Loaded(cli.mode) ELSE "failed"
                   /\ result' = IF r.ok THEN result ELSE Err(r.err)
                   /\ UNCHANGED <<walk, after>>
       ELSE IF IsDir(fs, cli.input)
       THEN /\ \E w \in Walks(fs, cli.input) : walk' = w
            /\ pc' = "walk"
            /\ after' = Loaded(cli.mode)
            /\ UNCHANGED <<host, parse_log, result>>
       ELSE /\ pc' = "failed"
            /\ result' = Err("Path does not exist")
            /\ UNCHANGED <<host, parse_log, walk, after>>
    /\ UNCHANGED <<cli, fs, engine, walked, metadata, index, checked, diagnostics, output,
                   codec, decoded, imported, calls, written, exit>>

\* load_directory: one turn of its loop over the entries of the walk, and
\* its return after the last entry.
WalkEntry ==
    /\ pc = "walk"
    /\ walk # <<>>
    /\ LET e == Head(walk)
           next == IF Tail(walk) = <<>> THEN after ELSE "walk"
       IN  /\ walked' = Append(walked, e)
           /\ walk' = Tail(walk)
           /\ IF ~e.ok
              THEN /\ pc' = "failed"
                   /\ result' = Err("Walk error")
                   /\ UNCHANGED <<host, parse_log>>
              ELSE IF is_sysml_file(fs, e.path)
              THEN \E n \in ParseErrorCounts(fs, e.path) :
                      LET r == load_file(fs, host, parse_log, e.path, n)
                      IN  /\ host' = r.host
                          /\ parse_log' = r.log
                          /\ pc' = IF r.ok THEN next ELSE "failed"
                          /\ result' = IF r.ok THEN result ELSE Err(r.err)
              ELSE /\ pc' = next
                   /\ UNCHANGED <<host, parse_log, result>>
    /\ UNCHANGED <<cli, fs, engine, after, metadata, index, checked, diagnostics, output,
                   codec, decoded, imported, calls, written, exit>>

\* export_model, step 2.5: WorkspaceLoader::load_metadata_from_directory on
\* the directory of the input; a failure is only reported.
LoadMetadata ==
    /\ pc = "metadata"
    /\ metadata' = IF fs.sidecar THEN Sidecar ELSE metadata
    /\ pc' = "analysis"
    /\ UNCHANGED <<cli, fs, engine, host, walk, walked, after, parse_log, index,
                   checked, diagnostics, result, output,
                   codec, decoded, imported, calls, written, exit>>

\* host.analysis(): the index is rebuilt over every registered file.  The
\* loading is over, and the record of the walks is dropped.
Analysis ==
    /\ pc = "analysis"
    /\ index' = all_symbols(fs, metadata, host) \o imported
    /\ walked' = <<>>
    /\ pc' = IF cli.mode = "analysis" THEN "collect"
             ELSE IF cli.mode = "export" THEN "export"
             ELSE IF cli.mode = "export_ast" THEN "export_ast"
             ELSE IF cli.export THEN "export_host"
             ELSE "done"
    /\ UNCHANGED <<cli, fs, engine, host, walk, after, parse_log, metadata,
                   checked, diagnostics, result, output, codec, decoded, imported,
                   calls, written, exit>>

----------------------------------------------------------------------------
(* Diagnostic aggregation (lib.rs, collect_diagnostics and run_analysis).  *)

\* u32 addition of one; a line or column of the engine is far below u32::MAX.
Inc(n) == n + 1

\* Mutant of DiagnosticInfo: the end of the span stays 0-indexed.
DiagnosticInfoEndRaw(file_path, diag) ==
    [file |-> file_path,
     line |-> Inc(diag.start_line),
     col |-> Inc(diag.start_col),
     end_line |-> diag.end_line,
     end_col |-> diag.end_col,
     message |-> diag.message,
     severity |-> diag.severity,
     code |-> diag.code]

\* The DiagnosticInfo pushed for one hir::Diagnostic of a file.
DiagnosticInfo(file_path, diag) ==
    [file |-> file_path,
     line |-> Inc(diag.start_line),
     col |-> Inc(diag.start_col),
     end_line |-> Inc(diag.end_line),
     end_col |-> Inc(diag.end_col),
     message |-> diag.message,
     severity |-> diag.severity,
     code |-> diag.code]

IntCmp(m, n) == IF m < n THEN -1 ELSE IF m > n THEN 1 ELSE 0

\* StrCmp on the paths of the files, computed once.
PathCmp == [p \in Files, q \in Files |-> StrCmp(p, q)]

\* Mutant of DiagCmp: the column is compared before the line.
DiagCmpColFirst(a, b) ==
    IF PathCmp[a.file, b.file] # 0 THEN PathCmp[a.file, b.file]
    ELSE IF IntCmp(a.col, b.col) # 0 THEN IntCmp(a.col, b.col)
    ELSE IntCmp(a.line, b.line)

\* Mutant of DiagCmp: the file is left out of the key.
DiagCmpNoFile(a, b) ==
    IF IntCmp(a.line, b.line) # 0 THEN IntCmp(a.line, b.line)
    ELSE IntCmp(a.col, b.col)

\* The comparator handed to sort_by: (&a.file, a.line, a.col).cmp(..).
DiagCmp(a, b) ==
    IF PathCmp[a.file, b.file] # 0 THEN PathCmp[a.file, b.file]
    ELSE IF IntCmp(a.line, b.line) # 0 THEN IntCmp(a.line, b.line)
    ELSE IntCmp(a.col, b.col)

\* Mutant of InsertSorted: of the diagnostics with one (file, line, col),
\* one is kept.
RECURSIVE InsertSortedDedup(_, _)
InsertSortedDedup(x, s) ==
    IF s = <<>> THEN <<x>>
    ELSE IF DiagCmp(x, Head(s)) < 0 THEN <<x>> \o s
    ELSE IF DiagCmp(x, Head(s)) = 0 THEN s
    ELSE <<Head(s)>> \o InsertSortedDedup(x, Tail(s))

\* Vec::sort_by is a stable sort: equal elements keep their order.
RECURSIVE InsertSorted(_, _)
InsertSorted(x, s) ==
    IF s = <<>> THEN <<x>>
    ELSE IF DiagCmp(x, Head(s)) < 0 THEN <<x>> \o s
    ELSE <<Head(s)>> \o InsertSorted(x, Tail(s))

RECURSIVE sort_by(_)
sort_by(s) ==
    IF s = <<>> THEN <<>>
    ELSE InsertSorted(s[Len(s)], sort_by(SubSeq(s, 1, Len(s) - 1)))

\* The loop of collect_diagnostics over host.files() in the order given.
RECURSIVE PushAll(_, _)
PushAll(order, ck) ==
    IF order = <<>> THEN <<>>
    ELSE [i \in 1..Len(ck[Head(order)]) |-> DiagnosticInfo(Head(order), ck[Head(order)][i])]
            \o PushAll(Tail(order), ck)

collect_diagnostics(order, ck) == sort_by(PushAll(order, ck))

Count(s, sev) == Cardinality({i \in 1..Len(s) : s[i].severity = sev})

\* Mutant of AnalysisResult: every diagnostic that is not a warning counts
\* as an error.
AnalysisResultMiscount(h, idx, diags) ==
    [ok |-> TRUE,
     file_count |-> Len(h),
     symbol_count |-> Len(idx),
     error_count |-> Len(diags) - Count(diags, "Warning"),
     warning_count |-> Count(diags, "Warning"),
     diagnostics |-> diags]

\* The AnalysisResult run_analysis builds.
AnalysisResult(h, idx, diags) ==
    [ok |-> TRUE,
     file_count |-> Len(h),
     symbol_count |-> Len(idx),
     error_count |-> Count(diags, "Error"),
     warning_count |-> Count(diags, "Warning"),
     diagnostics |-> diags]

\* collect_diagnostics: host.files() yields the registered files in an order
\* of the engine's choosing, and check_file answers for each.
CollectDiagnostics ==
    /\ pc = "collect"
    /\ \E ck \in CheckAnswers(host, engine), order \in Perms(Range(host)) :
        /\ checked' = ck
        /\ diagnostics' = collect_diagnostics(order, ck)
    /\ pc' = "result"
    /\ UNCHANGED <<cli, fs, engine, host, walk, walked, after, parse_log, metadata,
                   index, result, output,
                   codec, decoded, imported, calls, written, exit>>

\* run_analysis, step 5: the counts and the result.
BuildResult ==
    /\ pc = "result"
    /\ result' = Some(AnalysisResult(host, index, diagnostics))
    /\ pc' = "done"
    /\ UNCHANGED <<cli, fs, engine, host, walk, walked, after, parse_log, metadata,
                   index, checked, diagnostics, output,
                   codec, decoded, imported, calls, written, exit>>

----------------------------------------------------------------------------
(* Interchange export (lib.rs, export_model).                              *)

\* model_from_symbols: one element per symbol, with a freshly minted
\* identity, and one relationship per supertype reference.
Elements(idx) ==
    [i \in 1..Len(idx) |->
        [id |-> Minted(idx[i].qualified_name),
         qualified_name |-> idx[i].qualified_name,
         file |-> idx[i].file]]

RECURSIVE Relationships(_)
Relationships(idx) ==
    IF idx = <<>> THEN <<>>
    ELSE [j \in 1..Len(Head(idx).supertypes) |->
             [source |-> Head(idx).qualified_name,
              target |-> Head(idx).supertypes[j],
              file |-> Head(idx).file]]
            \o Relationships(Tail(idx))

model_from_symbols(idx) ==
    [elements |-> Elements(idx), relationships |-> Relationships(idx)]

\* Mutant of restore_ids_from_symbols: the minted identities are kept.
restore_ids_skipped(model, idx) == model

\* restore_ids_from_symbols: an element whose symbol holds an original
\* identity gets it back.
restore_ids_from_symbols(model, idx) ==
    [model EXCEPT !.elements =
        [i \in 1..Len(model.elements) |->
            IF idx[i].element_id # None
            THEN [model.elements[i] EXCEPT !.id = Original(idx[i].element_id[1])]
            ELSE model.elements[i]]]

\* The formats export_model serializes to.
ExportFormats == {XmiExt, KparExt, JsonldName, JsonLdName}

\* Mutant of export_model: the format name is matched as it is given.
export_model_exact(idx, format) ==
    IF format \in ExportFormats
    THEN [ok |-> TRUE, format |-> format,
          model |-> restore_ids_from_symbols(model_from_symbols(idx), idx)]
    ELSE [ok |-> FALSE, err |-> "Unsupported format"]

\* export_model, steps 4 to 8: every symbol of the index goes into the
\* model, and the model is serialized whole.  The format name is matched
\* in lower case.
export_model(idx, format) ==
    IF to_lowercase(format) \in ExportFormats
    THEN [ok |-> TRUE, format |-> format,
          model |-> restore_ids_from_symbols(model_from_symbols(idx), idx)]
    ELSE [ok |-> FALSE, err |-> "Unsupported format"]

ExportModel ==
    /\ pc = "export"
    /\ LET r == export_model(index, cli.format)
       IN  /\ result' = Some(r)
           /\ output' = IF r.ok THEN Some(r.model) ELSE None
           /\ pc' = IF r.ok THEN "done" ELSE "failed"
    /\ UNCHANGED <<cli, fs, engine, host, walk, walked, after, parse_log, metadata,
                   index, checked, diagnostics,
                   codec, decoded, imported, calls, written, exit>>

----------------------------------------------------------------------------
(* Interchange import and decompilation (lib.rs, import_model_into_host,   *)
(* import_model, decompile_model; main.rs, the decompile command).         *)

SysmlxExt == <<"s", "y", "s", "m", "l", "x">>
KermlxExt == <<"k", "e", "r", "m", "l", "x">>

\* The arms of the match on the lowercased format name.
CodecOf(name) ==
    IF name \in {XmiExt, SysmlxExt, KermlxExt} THEN Some("Xmi")
    ELSE IF name = KparExt THEN Some("Kpar")
    ELSE IF name \in {JsonldName, JsonLdName, JsonName} THEN Some("JsonLd")
    ELSE None

\* syster::interchange::detect_format: the codec for the extension of the
\* path, None when the extension is not one of a format.
detect_format(p) ==
    IF Extension(p) = None THEN None
    ELSE IF Extension(p)[1] \in {XmiExt, SysmlxExt, KermlxExt} THEN Some("Xmi")
    ELSE IF Extension(p)[1] = KparExt THEN Some("Kpar")
    ELSE IF Extension(p)[1] \in {JsonldName, JsonName} THEN Some("JsonLd")
    ELSE None

\* The format name the call goes by: the override, else the extension of
\* the input, else xmi.
format_str(input, override) ==
    IF override # None THEN override[1]
    ELSE IF Extension(input) # None THEN Extension(input)[1]
    ELSE XmiExt

\* Mutant of ResolveFormat: the extension of the input is looked at first.
ResolveFormatExtensionFirst(input, override) ==
    IF detect_format(input) # None THEN detect_format(input)
    ELSE CodecOf(to_lowercase(format_str(input, override)))

\* Mutant of ResolveFormat: a name that selects no codec is read as xmi.
ResolveFormatDefaultXmi(input, override) ==
    IF CodecOf(to_lowercase(format_str(input, override))) # None
    THEN CodecOf(to_lowercase(format_str(input, override)))
    ELSE Some("Xmi")

\* The codec that parses the model: the one the lowercased format name
\* selects, else the one detected from the extension, else none.
ResolveFormat(input, override) ==
    IF CodecOf(to_lowercase(format_str(input, override))) # None
    THEN CodecOf(to_lowercase(format_str(input, override)))
    ELSE detect_format(input)

\* The steps the imports and the decompilation share: read the file,
\* determine the format, parse the model.  A codec parses the bytes of its
\* own encoding only.
Decode(f, input, override) ==
    IF input \notin ModelFiles
    THEN [ok |-> FALSE, codec |-> None, model |-> NoModel, err |-> "Failed to read"]
    ELSE LET chosen == ResolveFormat(input, override)
         IN  IF chosen = None
             THEN [ok |-> FALSE, codec |-> None, model |-> NoModel, err |-> "Unknown format"]
             ELSE IF chosen[1] # Encoding(input)
             THEN [ok |-> FALSE, codec |-> chosen, model |-> NoModel, err |-> "Decode error"]
             ELSE [ok |-> TRUE, codec |-> chosen, model |-> f.content, err |-> ""]

\* The targets of the relationships whose source is id, in their order.
RECURSIVE Targets_of(_, _)
Targets_of(rels, id) ==
    IF rels = <<>> THEN <<>>
    ELSE (IF Head(rels).source = id THEN <<Head(rels).target.of>> ELSE <<>>)
            \o Targets_of(Tail(rels), id)

\* Mutant of symbols_from_model: the identity of the element is dropped.
symbols_from_model_no_id(m) ==
    [i \in 1..Len(m.elements) |->
        [qualified_name |-> m.elements[i].qualified_name,
         file |-> <<>>,
         supertypes |-> Targets_of(m.relationships, m.elements[i].id),
         element_id |-> None]]

\* symbols_from_model: one symbol per element, which keeps the identity of
\* the element, with the targets of its relationships as supertypes.
symbols_from_model(m) ==
    [i \in 1..Len(m.elements) |->
        [qualified_name |-> m.elements[i].qualified_name,
         file |-> <<>>,
         supertypes |-> Targets_of(m.relationships, m.elements[i].id),
         element_id |-> Some(m.elements[i].id.of)]]

\* AnalysisHost::add_symbols_from_model
add_symbols_from_model(syms, new) == syms \o new

\* Mutant of import_model_into_host: a call that fails leaves an empty
\* host.
import_model_into_host_clearing(f, h, syms, input, override) ==
    LET d == Decode(f, input, override)
    IN  IF ~d.ok
        THEN [result |-> [ok |-> FALSE, err |-> d.err], files |-> <<>>, symbols |-> <<>>,
              codec |-> d.codec, decoded |-> None]
        ELSE [result |-> [ok |-> TRUE,
                          element_count |-> Len(d.model.elements),
                          relationship_count |-> Len(d.model.relationships),
                          error_count |-> 0,
                          messages |-> <<[level |-> "info",
                                          text |-> "Successfully imported"]>>],
              files |-> h,
              symbols |-> add_symbols_from_model(syms, symbols_from_model(d.model)),
              codec |-> d.codec, decoded |-> Some(d.model)]

\* Mutant of import_model_into_host: the symbols of the model are added to
\* a host that is emptied first.
import_model_into_host_replacing(f, h, syms, input, override) ==
    LET d == Decode(f, input, override)
    IN  IF ~d.ok
        THEN [result |-> [ok |-> FALSE, err |-> d.err], files |-> h, symbols |-> syms,
              codec |-> d.codec, decoded |-> None]
        ELSE [result |-> [ok |-> TRUE,
                          element_count |-> Len(d.model.elements),
                          relationship_count |-> Len(d.model.relationships),
                          error_count |-> 0,
                          messages |-> <<[level |-> "info",
                                          text |-> "Successfully imported"]>>],
              files |-> <<>>,
              symbols |-> add_symbols_from_model(<<>>, symbols_from_model(d.model)),
              codec |-> d.codec, decoded |-> Some(d.model)]

\* import_model_into_host on a host that holds the files h and the
\* imported symbols syms: what it returns, and the host it leaves.
import_model_into_host(f, h, syms, input, override) ==
    LET d == Decode(f, input, override)
    IN  IF ~d.ok
        THEN [result |-> [ok |-> FALSE, err |-> d.err], files |-> h, symbols |-> syms,
              codec |-> d.codec, decoded |-> None]
        ELSE [result |-> [ok |-> TRUE,
                          element_count |-> Len(d.model.elements),
                          relationship_count |-> Len(d.model.relationships),
                          error_count |-> 0,
                          messages |-> <<[level |-> "info",
                                          text |-> "Successfully imported"]>>],
              files |-> h,
              symbols |-> add_symbols_from_model(syms, symbols_from_model(d.model)),
              codec |-> d.codec, decoded |-> Some(d.model)]

\* model.elements.get(id)
Get(m, id) == {i \in 1..Len(m.elements) : m.elements[i].id = id}

\* The loop of import_model over the relationships: one warning for a
\* source that is not found, then one for a target that is not found.
RECURSIVE Validate(_, _)
Validate(m, rels) ==
    IF rels = <<>> THEN <<>>
    ELSE (IF Get(m, Head(rels).source) = {}
          THEN <<[level |-> "warning", text |-> "source not found",
                  of |-> Head(rels).source]>>
          ELSE <<>>)
         \o (IF Get(m, Head(rels).target) = {}
             THEN <<[level |-> "warning", text |-> "target not found",
                     of |-> Head(rels).target]>>
             ELSE <<>>)
         \o Validate(m, Tail(rels))

\* Mutant of import_model: a relationship counts once, however many of its
\* ends are not found.
import_model_per_relationship(f, input, override) ==
    LET d == Decode(f, input, override)
    IN  IF ~d.ok
        THEN [result |-> [ok |-> FALSE, err |-> d.err], codec |-> d.codec, decoded |-> None]
        ELSE [result |-> [ok |-> TRUE,
                          element_count |-> Len(d.model.elements),
                          relationship_count |-> Len(d.model.relationships),
                          error_count |->
                              Cardinality({i \in 1..Len(d.model.relationships) :
                                  \/ Get(d.model, d.model.relationships[i].source) = {}
                                  \/ Get(d.model, d.model.relationships[i].target) = {}}),
                          messages |-> Validate(d.model, d.model.relationships)],
              codec |-> d.codec, decoded |-> Some(d.model)]

\* import_model
import_model(f, input, override) ==
    LET d == Decode(f, input, override)
    IN  IF ~d.ok
        THEN [result |-> [ok |-> FALSE, err |-> d.err], codec |-> d.codec, decoded |-> None]
        ELSE [result |-> [ok |-> TRUE,
                          element_count |-> Len(d.model.elements),
                          relationship_count |-> Len(d.model.relationships),
                          error_count |-> Len(Validate(d.model, d.model.relationships)),
                          messages |-> Validate(d.model, d.model.relationships)],
              codec |-> d.codec, decoded |-> Some(d.model)]

\* decompile_with_source: the text, which names every element, and the
\* metadata, which gives the identity of each qualified name.
decompile_with_source(m) ==
    [text |-> [i \in 1..Len(m.elements) |-> m.elements[i].qualified_name],
     metadata |-> {[qualified_name |-> m.elements[i].qualified_name,
                    id |-> m.elements[i].id.of] : i \in 1..Len(m.elements)}]

\* decompile_model
decompile_model(f, input, override) ==
    LET d == Decode(f, input, override)
    IN  IF ~d.ok
        THEN [result |-> [ok |-> FALSE, err |-> d.err], codec |-> d.codec, decoded |-> None]
        ELSE [result |-> [ok |-> TRUE,
                          sysml_text |-> decompile_with_source(d.model).text,
                          metadata_json |-> decompile_with_source(d.model).metadata,
                          element_count |-> Len(d.model.elements),
                          source_path |-> input],
              codec |-> d.codec, decoded |-> Some(d.model)]

\* main, the import into a workspace: StdLibLoader::ensure_loaded_into_host,
\* whose failure is only a warning.
EnsureStdlib ==
    /\ pc = "start"
    /\ cli.mode = "import_workspace"
    /\ \/ host' = host
       \/ /\ cli.load_stdlib
          /\ \E d \in fs.present : host' = set_file_content(host, LibFile(d))
    /\ pc' = "import_host"
    /\ UNCHANGED <<cli, fs, engine, walk, walked, after, parse_log, metadata, index,
                   checked, diagnostics, result, output, codec, decoded, imported,
                   calls, written, exit>>

\* One call of import_model_into_host on the host.  The command makes one
\* call; another caller may make more.
ImportModelIntoHost ==
    /\ pc = "import_host"
    /\ calls < MaxImports
    /\ LET r == import_model_into_host(fs, host, imported, cli.input, cli.override)
       IN  /\ result' = Some(r.result)
           /\ host' = r.files
           /\ imported' = r.symbols
           /\ codec' = r.codec
           /\ decoded' = r.decoded
           /\ calls' = calls + 1
           /\ IF ~r.result.ok THEN pc' = "failed"
              ELSE \/ pc' = "analysis"
                   \/ calls + 1 < MaxImports /\ pc' = "import_host"
    /\ UNCHANGED <<cli, fs, engine, walk, walked, after, parse_log, metadata,
                   index, checked, diagnostics, output, written, exit>>

\* The import that only validates.
ImportModel ==
    /\ pc = "start"
    /\ cli.mode = "import"
    /\ LET r == import_model(fs, cli.input, cli.override)
       IN  /\ result' = Some(r.result)
           /\ codec' = r.codec
           /\ decoded' = r.decoded
           /\ pc' = IF r.result.ok THEN "done" ELSE "failed"
    /\ UNCHANGED <<cli, fs, engine, host, walk, walked, after, parse_log, metadata,
                   index, checked, diagnostics, output, imported, calls, written, exit>>

\* The decompile command, its call of decompile_model.
DecompileModel ==
    /\ pc = "start"
    /\ cli.mode = "decompile"
    /\ LET r == decompile_model(fs, cli.input, cli.override)
       IN  /\ result' = Some(r.result)
           /\ codec' = r.codec
           /\ decoded' = r.decoded
           /\ pc' = IF r.result.ok THEN "write" ELSE "failed"
    /\ UNCHANGED <<cli, fs, engine, host, walk, walked, after, parse_log, metadata,
                   index, checked, diagnostics, output, imported, calls, written, exit>>

\* The paths the decompile command writes the text and the metadata to.
sysml_path(c) ==
    IF c.output # None THEN c.output[1] ELSE with_extension(c.input, SysmlExt)
metadata_path(c) == with_extension(sysml_path(c), MetadataExt)

\* The decompile command, its two writes: the text first, then the
\* metadata; the first write that fails ends the command.
WriteDecompiled ==
    /\ pc = "write"
    /\ IF sysml_path(cli) \in fs.readonly
       THEN /\ written' = written
            /\ pc' = "failed"
       ELSE IF metadata_path(cli) \in fs.readonly
       THEN /\ written' = written \cup {sysml_path(cli)}
            /\ pc' = "failed"
       ELSE /\ written' = written \cup {sysml_path(cli), metadata_path(cli)}
            /\ pc' = "done"
    /\ UNCHANGED <<cli, fs, engine, host, walk, walked, after, parse_log, metadata,
                   index, checked, diagnostics, result, output, codec, decoded,
                   imported, calls, exit>>

\* The source path of x tells that it comes from the standard library.
StdlibOrigin(x) == Contains(x.file, SysmlLibrary)

\* The elements of s that do not come from the standard library.
RECURSIVE UserOnly(_)
UserOnly(s) ==
    IF s = <<>> THEN <<>>
    ELSE (IF StdlibOrigin(Head(s)) THEN <<>> ELSE <<Head(s)>>) \o UserOnly(Tail(s))

\* export_from_host: the export from a host, with its filter and its
\* dispatch on the exact format name.
export_from_host(idx, format, self_contained) ==
    IF format \in ExportFormats
    THEN LET m == restore_ids_from_symbols(model_from_symbols(idx), idx)
         IN  [ok |-> TRUE, format |-> format,
              model |-> IF self_contained THEN m
                        ELSE [elements |-> UserOnly(m.elements),
                              relationships |-> UserOnly(m.relationships)]]
    ELSE [ok |-> FALSE, err |-> "Unsupported format"]

\* main, the import into a workspace with --export.
ExportFromHost ==
    /\ pc = "export_host"
    /\ LET r == export_from_host(index, cli.format, cli.self_contained)
       IN  /\ output' = IF r.ok THEN Some(r.model) ELSE None
           /\ pc' = IF r.ok THEN "done" ELSE "failed"
    /\ UNCHANGED <<cli, fs, engine, host, walk, walked, after, parse_log, metadata,
                   index, checked, diagnostics, result, codec, decoded, imported,
                   calls, written, exit>>

----------------------------------------------------------------------------
(* AST export (lib.rs, export_ast).                                        *)

\* symbol_index().symbols_in_file, mapped to ExportSymbol.
symbols_in_file(idx, p) ==
    LET here == SelectSeq(idx, LAMBDA sym : sym.file = p)
    IN  [i \in 1..Len(here) |->
            [qualified_name |-> here[i].qualified_name, file |-> p,
             supertypes |-> here[i].supertypes]]

\* The loop of export_ast over host.files() in the order given: a file
\* whose path contains sysml.library is skipped, every other file gets a
\* FileAst.
RECURSIVE PushFiles(_, _)
PushFiles(order, idx) ==
    IF order = <<>> THEN <<>>
    ELSE (IF Contains(Head(order), SysmlLibrary)
          THEN <<>>
          ELSE <<[path |-> Head(order), symbols |-> symbols_in_file(idx, Head(order))]>>)
            \o PushFiles(Tail(order), idx)

\* files.sort_by(|a, b| a.path.cmp(&b.path)), a stable sort.
RECURSIVE InsertByPath(_, _)
InsertByPath(x, s) ==
    IF s = <<>> THEN <<x>>
    ELSE IF PathCmp[x.path, Head(s).path] < 0 THEN <<x>> \o s
    ELSE <<Head(s)>> \o InsertByPath(x, Tail(s))

RECURSIVE sort_by_path(_)
sort_by_path(s) ==
    IF s = <<>> THEN <<>>
    ELSE InsertByPath(s[Len(s)], sort_by_path(SubSeq(s, 1, Len(s) - 1)))

\* export_ast, after the loading: the AstExport it serializes.
export_ast(order, idx) ==
    [ok |-> TRUE, files |-> sort_by_path(PushFiles(order, idx))]

ExportAst ==
    /\ pc = "export_ast"
    /\ \E order \in Perms(Range(host)) :
          result' = Some(export_ast(order, index))
    /\ pc' = "done"
    /\ UNCHANGED <<cli, fs, engine, host, walk, walked, after, parse_log, metadata,
                   index, checked, diagnostics, output, codec, decoded, imported,
                   calls, written, exit>>

----------------------------------------------------------------------------
(* The end of main (main.rs): what is written to the output path, and the  *)
(* exit code.                                                              *)

\* write_output / write_bytes_output: the path, when one is given, is
\* written; a write that fails is reported on stderr and changes nothing.
write_output(f, w, out) ==
    IF out = None \/ out[1] \in f.readonly THEN w ELSE w \cup {out[1]}

\* The command hands something to write_output or write_bytes_output:
\* the interchange bytes, the AST, or the analysis result under --json.
WritesOutput(c, p) ==
    /\ p = "done"
    /\ \/ c.mode \in {"export", "export_ast"}
       \/ c.mode = "import_workspace" /\ c.export
       \/ c.mode = "analysis" /\ "json" \in c.flags

\* Mutant of analysis_exit: warnings fail the run too.
analysis_exit_strict(r) ==
    IF r.error_count = 0 /\ r.warning_count = 0 THEN "SUCCESS" ELSE "FAILURE"

\* main, after run_analysis returned Ok, with --json and without.
analysis_exit(r) == IF r.error_count = 0 THEN "SUCCESS" ELSE "FAILURE"

\* Mutant of import_exit: the validation issues are only printed.
import_exit_lenient(r) == "SUCCESS"

\* main, after import_model returned Ok.
import_exit(r) == IF r.error_count > 0 THEN "FAILURE" ELSE "SUCCESS"

\* The ExitCode main returns: FAILURE when the operation returned Err or a
\* write of the decompile command failed, else what the pipeline says.
ExitCode(c, p, r) ==
    IF p = "failed" THEN "FAILURE"
    ELSE IF c.mode = "analysis" THEN analysis_exit(r[1])
    ELSE IF c.mode = "import" THEN import_exit(r[1])
    ELSE "SUCCESS"

\* main returns.
Finish ==
    /\ pc \in {"done", "failed"}
    /\ exit = None
    /\ written' = IF WritesOutput(cli, pc) THEN write_output(fs, written, cli.output)
                  ELSE written
    /\ exit' = Some(ExitCode(cli, pc, result))
    /\ UNCHANGED <<cli, fs, engine, pc, host, walk, walked, after, parse_log, metadata,
                   index, checked, diagnostics, result, output, codec, decoded,
                   imported, calls>>

----------------------------------------------------------------------------

Next ==
    \/ Main
    \/ LoadStdlib
    \/ LoadInput
    \/ WalkEntry
    \/ LoadMetadata
    \/ Analysis
    \/ CollectDiagnostics
    \/ BuildResult
    \/ ExportModel
    \/ EnsureStdlib
    \/ ImportModelIntoHost
    \/ ImportModel
    \/ DecompileModel
    \/ WriteDecompiled
    \/ ExportFromHost
    \/ ExportAst
    \/ Finish

Spec == Init /\ [][Next]_vars

SpecAgg == InitAgg /\ [][Next]_vars

SpecIx == InitIx /\ [][Next]_vars

----------------------------------------------------------------------------
(* Properties.                                                             *)

Recognized == {Some(SysmlExt), Some(KermlExt)}

\* p lies under the directory dir, at any depth.
Under(p, dir) ==
    Len(p) > Len(dir) + 1 /\ SubSeq(p, 1, Len(dir) + 1) = dir \o <<"/">>

\* The regular files under dir with a recognized extension.
SourcesUnder(dir) ==
    {p \in Files : Exists(fs, p) /\ Under(p, dir) /\ Extension(p) \in Recognized}

\* The files are loaded and the call has not failed.
PastLoad == pc \in {"metadata", "analysis", "collect", "result", "export", "done"}

Collected == cli.mode = "analysis" /\ pc \in {"result", "done"}

AnalysisDone == cli.mode = "analysis" /\ pc = "done"

\* (a.file, a.line, a.col) <= (b.file, b.line, b.col), lexicographically.
KeyLeq(a, b) ==
    \/ PathCmp[a.file, b.file] < 0
    \/ a.file = b.file /\ a.line < b.line
    \/ a.file = b.file /\ a.line = b.line /\ a.col <= b.col

IsSorted(ds) == \A i, j \in 1..Len(ds) : i < j => KeyLeq(ds[i], ds[j])

\* C1: the diagnostics collect_diagnostics returns, and those of the result
\* of run_analysis, are sorted by (file, line, col), whatever the number of
\* files and the order the engine answered in.
C1_DiagnosticsSorted ==
    /\ Collected => IsSorted(diagnostics)
    /\ AnalysisDone => IsSorted(result[1].diagnostics)

\* C1, witness: a run over two files in which the engine reported a later
\* position before an earlier one, and the column decides the order.
C1_Witness ==
    /\ AnalysisDone
    /\ Len(host) = 2
    /\ \E p \in Range(host) :
        /\ Len(checked[p]) = 2
        /\ checked[p][1].start_line = 0 /\ checked[p][1].start_col = 1
        /\ checked[p][2].start_line = 0 /\ checked[p][2].start_col = 0

\* C2: in the result of a successful run_analysis, error_count is the number
\* of diagnostics of severity Error and warning_count the number of severity
\* Warning; Info and Hint count in neither.
C2_CountsMatchDiagnostics ==
    AnalysisDone =>
        LET r == result[1]
            With(sev) == {i \in 1..Len(r.diagnostics) : r.diagnostics[i].severity = sev}
        IN  /\ r.ok
            /\ r.error_count = Cardinality(With("Error"))
            /\ r.warning_count = Cardinality(With("Warning"))
            /\ r.error_count + r.warning_count + Cardinality(With("Info"))
                   + Cardinality(With("Hint")) = Len(r.diagnostics)

\* C2, witness: a result with one Error and one Hint.
C2_Witness ==
    /\ AnalysisDone
    /\ result[1].error_count = 1
    /\ result[1].warning_count = 0
    /\ Len(result[1].diagnostics) = 2
    /\ \E i \in 1..2 : result[1].diagnostics[i].severity = "Hint"

\* C3: the sequence collect_diagnostics returns does not depend on the order
\* the files were registered in, nor on the order host.files() yields them:
\* every order yields the same sequence from the same per-file diagnostics,
\* ties on (file, line, col) included.
C3_OrderIndependent ==
    Collected =>
        \A order \in Perms(Range(host)) :
            collect_diagnostics(order, checked) = diagnostics

\* C3, witness: two files are registered, e.kerml before a.sysml, and two
\* diagnostics of one file tie on (file, line, col).
C3_Witness ==
    /\ AnalysisDone
    /\ host = <<FileE, FileA>>
    /\ Len(diagnostics) = 2
    /\ diagnostics[1].file = diagnostics[2].file
    /\ diagnostics[1].line = diagnostics[2].line
    /\ diagnostics[1].col = diagnostics[2].col
    /\ diagnostics[1].severity # diagnostics[2].severity

\* C4: once a directory is loaded, the files registered from under it are
\* exactly its regular files with the extension sysml or kerml, at any
\* depth; file_count is their number when nothing else was loaded; and no
\* file with another extension is registered at any point of the load.
C4_DirectoryLoadsExactlySources ==
    IsDir(fs, cli.input) =>
        /\ \A p \in Range(host) : Extension(p) \in Recognized
        /\ PastLoad =>
            {p \in Range(host) : Under(p, cli.input)} = SourcesUnder(cli.input)
        /\ (AnalysisDone /\ ~cli.load_stdlib) =>
            result[1].file_count = Cardinality(SourcesUnder(cli.input))

\* C4, witness: w is analysed without a standard library; a.sysml and the
\* nested d/e.kerml are registered, c.txt is not.
C4_Witness ==
    /\ AnalysisDone
    /\ cli.input = DirW
    /\ ~cli.load_stdlib
    /\ Range(host) = {FileA, FileE}
    /\ result[1].file_count = 2
    /\ IsFile(fs, FileC) /\ Under(FileC, cli.input)

\* C5: a single regular file given as the input is registered only if its
\* extension is sysml or kerml.
C5_SingleFileFiltered ==
    (IsFile(fs, cli.input) /\ cli.input \in Range(host)) =>
        Extension(cli.input) \in Recognized

\* C6: every diagnostic returned is a diagnostic of the engine for that file
\* with one added to each of its four positions, so line and col are at
\* least 1 and the extent of the span is unchanged.
C6_OneIndexed ==
    Collected =>
        \A i \in 1..Len(diagnostics) :
            LET d == diagnostics[i]
            IN  /\ d.line >= 1 /\ d.col >= 1
                /\ \E k \in 1..Len(checked[d.file]) :
                    LET e == checked[d.file][k]
                    IN  /\ d.line = e.start_line + 1
                        /\ d.col = e.start_col + 1
                        /\ d.end_line = e.end_line + 1
                        /\ d.end_col = e.end_col + 1
                        /\ d.end_line - d.line = e.end_line - e.start_line
                        /\ d.end_col - d.col = e.end_col - e.start_col
                        /\ d.severity = e.severity

\* C6, witness: a diagnostic the engine placed at line 0, column 0, spanning
\* two lines, is returned at 1:1 ending on line 2.
C6_Witness ==
    /\ AnalysisDone
    /\ \E i \in 1..Len(diagnostics) :
        /\ diagnostics[i].line = 1 /\ diagnostics[i].col = 1
        /\ diagnostics[i].end_line = 2 /\ diagnostics[i].end_col = 1
        /\ \E k \in 1..Len(checked[diagnostics[i].file]) :
            LET e == checked[diagnostics[i].file][k]
            IN  e.start_line = 0 /\ e.start_col = 0 /\ e.end_line = 1 /\ e.end_col = 0

\* The entries of standard-library directories that a walk has yielded or
\* is about to yield, or that are registered.
LibNodes == LibDirs \cup {LibFile(d) : d \in LibDirs}
LibTouched ==
    ({walked[i].path : i \in 1..Len(walked)} \cup {walk[i].path : i \in 1..Len(walk)}
        \cup Range(host)) \cap LibNodes

StdlibErr == result = Err("Stdlib path does not exist")

\* C7: with a custom path, only that path is tried, and the call fails when
\* it does not exist; with none, the first existing default location is the
\* only one loaded; when none exists the load succeeds without a library.
C7_StdlibFirstMatch ==
    (cli.mode \in {"analysis", "export"} /\ cli.load_stdlib /\ pc # "start") =>
        IF cli.stdlib_path # None
        THEN IF Exists(fs, cli.stdlib_path[1])
             THEN /\ ~StdlibErr
                  /\ LibTouched \subseteq {cli.stdlib_path[1], LibFile(cli.stdlib_path[1])}
                  /\ walked # <<>> => walked[1].path = cli.stdlib_path[1]
             ELSE /\ pc = "failed" /\ StdlibErr
                  /\ walked = <<>> /\ host = <<>> /\ walk = <<>>
        ELSE LET d1 == default_paths[1]
                 d2 == default_paths[2]
                 d3 == default_paths[3]
                 first == IF Exists(fs, d1) THEN Some(d1)
                          ELSE IF Exists(fs, d2) THEN Some(d2)
                          ELSE IF Exists(fs, d3) THEN Some(d3)
                          ELSE None
             IN  /\ ~StdlibErr
                 /\ first = None => LibTouched = {}
                 /\ first # None =>
                     /\ LibTouched \subseteq {first[1], LibFile(first[1])}
                     /\ walked # <<>> => walked[1].path = first[1]
                     /\ PastLoad => LibFile(first[1]) \in Range(host)

\* C7, witness: no custom path, the first default location is missing, the
\* second and the third exist, and the library of the second is loaded.
C7_Witness ==
    /\ pc = "done"
    /\ cli.load_stdlib /\ cli.stdlib_path = None
    /\ fs.present = {default_paths[2], default_paths[3]}
    /\ LibFile(default_paths[2]) \in Range(host)
    /\ LibFile(default_paths[3]) \notin Range(host)

\* Nothing in the file system or the arguments makes a load fail.
NothingFails ==
    /\ cli.mode \in {"analysis", "export"}
    /\ \A o \in fs.odd : o.kind \in {"syntax", "empty"}
    /\ Exists(fs, cli.input)
    /\ cli.stdlib_path # None => Exists(fs, cli.stdlib_path[1])

\* C8: parse errors never abort a load: a file whose content has parse
\* errors is registered all the same, the call does not fail because of
\* them, and the files after it are loaded.
C8_ParseErrorsDoNotAbort ==
    /\ \A i \in 1..Len(parse_log) : parse_log[i].path \in Range(host)
    /\ NothingFails => pc # "failed"
    /\ (NothingFails /\ PastLoad /\ IsDir(fs, cli.input)) =>
        SourcesUnder(cli.input) \subseteq Range(host)

\* C8, witness: the first file loaded from w has the most parse errors, and
\* the other file is loaded after it.
C8_Witness ==
    /\ pc = "done"
    /\ cli.input = DirW
    /\ Len(parse_log) = 2
    /\ parse_log[1].errors = MaxParseErrors
    /\ Range(host) = {FileA, FileE}

\* The walk failed on entry e: a traversal error, or a source file that
\* cannot be read.
Failing(e) ==
    \/ ~e.ok
    \/ /\ IsFile(fs, e.path)
       /\ Extension(e.path) \in Recognized
       /\ Is(fs, e.path, "unreadable")

\* C9: the first entry of a walk that fails, by a traversal error or a read
\* error, ends the call with an error: it is the last entry taken, it is not
\* registered, and no entry after it is registered.
C9_FirstFailureAborts ==
    \A i \in 1..Len(walked) :
        Failing(walked[i]) =>
            /\ i = Len(walked)
            /\ pc = "failed"
            /\ result # None /\ ~result[1].ok
            /\ Range(host) \subseteq {walked[j].path : j \in 1..(i - 1)}
            /\ \A k \in 1..Len(walk) : walk[k].path \notin Range(host)

\* C9, witness: a file was registered, the walk then failed, and a source
\* file it had not reached yet stays unregistered.
C9_Witness ==
    /\ pc = "failed"
    /\ Len(walked) > 0 /\ Failing(walked[Len(walked)])
    /\ host # <<>>
    /\ \E k \in 1..Len(walk) :
        /\ IsFile(fs, walk[k].path)
        /\ Extension(walk[k].path) \in Recognized
        /\ walk[k].path \notin Range(host)

\* The source path indicates standard-library origin.
FromStdlib(x) == Contains(x.file, SysmlLibrary)

\* C10: an export with self_contained = false contains no element and no
\* relationship of standard-library origin; one with self_contained = true
\* retains them.
C10_ExportFiltersStdlib ==
    (cli.mode = "export" /\ pc = "done") =>
        LET m == output[1]
            lib == {i \in 1..Len(m.elements) : FromStdlib(m.elements[i])}
                       \cup {i \in 1..Len(m.relationships) : FromStdlib(m.relationships[i])}
        IN  ~cli.self_contained => lib = {}

\* The model export_model serializes for the workspace of this run when the
\* caller asks for self_contained = sc.  The function takes no such
\* argument: whatever the caller asks for, the model is the same.
ExportedWith(sc) == export_model(index, cli.format).model

\* C11: for a workspace that holds standard-library symbols, the elements
\* and relationships exported with self_contained = false are a strict
\* subset of those exported with self_contained = true.
C11_FilteredIsStrictSubset ==
    (/\ cli.mode = "export" /\ pc = "done"
     /\ cli.input \in {DirW, FileA}
     /\ \E i \in 1..Len(index) : FromStdlib(index[i])) =>
        LET part == ExportedWith(FALSE)
            whole == ExportedWith(TRUE)
        IN  /\ Range(part.elements) \subseteq Range(whole.elements)
            /\ Range(part.relationships) \subseteq Range(whole.relationships)
            /\ Range(part.elements) # Range(whole.elements)

\* export_model has come to its match on the format name.
Dispatching == pc = "export" /\ pc' # "export"

Decoding == cli.mode \in {"import", "import_workspace", "decompile"}
Returned == Decoding /\ result # None

\* The codec a format name stands for, in any case of its letters.
Named(name) ==
    IF name \in {XmiExt, <<"X", "M", "I">>, <<"X", "m", "i">>, SysmlxExt, KermlxExt}
    THEN Some("Xmi")
    ELSE IF name \in {KparExt, <<"K", "P", "A", "R">>} THEN Some("Kpar")
    ELSE IF name \in {JsonldName, JsonLdName, JsonName} THEN Some("JsonLd")
    ELSE None

\* C13, as claimed: whenever an override is given, the codec the bytes are
\* decoded with is the one the override names, whatever the extension of
\* the input.
C13_OverridePrecedes ==
    (Returned /\ cli.override # None /\ codec # None) =>
        codec = Named(cli.override[1])

\* C13, amended: an override that names a format, in any case of its
\* letters, selects the codec of that format whatever the extension of the
\* input; an override that names no format leaves the choice to the
\* extension of the input.
C13_NamedOverridePrecedes ==
    (Returned /\ cli.override # None /\ cli.input \in ModelFiles) =>
        IF Named(cli.override[1]) # None
        THEN codec = Named(cli.override[1])
        ELSE /\ codec = (IF Extension(cli.input) = None THEN None
                         ELSE Named(Extension(cli.input)[1]))
             /\ codec = None => result[1] = [ok |-> FALSE, err |-> "Unknown format"]

\* C13, witness: the input is m.xmi and the override says KPAR: the KPAR
\* codec is the one the bytes were given to.
C13_Witness ==
    /\ Returned
    /\ cli.input = ModelXmi
    /\ cli.override = Some(<<"K", "P", "A", "R">>)
    /\ codec = Some("Kpar")

\* import_model_into_host or import_model has been called and has returned.
ImportReturned == cli.mode \in {"import", "import_workspace"} /\ result # None

\* C14, as claimed: without an override, a readable input whose extension
\* tells no format, or that has no extension, makes the import fail with
\* an unknown-format error; nothing is decoded and no symbol is added.
C14_UndetectableFormatFails ==
    (/\ ImportReturned
     /\ cli.override = None
     /\ cli.input \in ModelFiles
     /\ \/ Extension(cli.input) = None
        \/ Named(Extension(cli.input)[1]) = None) =>
        /\ pc = "failed"
        /\ result[1] = [ok |-> FALSE, err |-> "Unknown format"]
        /\ decoded = None
        /\ imported = <<>>

\* C14, amended: without an override, a readable input whose extension
\* tells no format makes the import fail with an unknown-format error;
\* nothing is decoded and no symbol is added.  An input with no extension
\* is decoded as XMI.
C14_UnknownExtensionFails ==
    (ImportReturned /\ cli.override = None /\ cli.input \in ModelFiles) =>
        IF Extension(cli.input) = None
        THEN codec = Some("Xmi")
        ELSE Named(Extension(cli.input)[1]) = None =>
                /\ pc = "failed"
                /\ result[1] = [ok |-> FALSE, err |-> "Unknown format"]
                /\ codec = None
                /\ decoded = None
                /\ imported = <<>>

\* C14, witness: m.txt is imported into a workspace without an override;
\* the call has failed with the unknown-format error.
C14_Witness ==
    /\ cli.mode = "import_workspace"
    /\ cli.input = ModelTxt
    /\ cli.override = None
    /\ calls = 1
    /\ pc = "failed"
    /\ result = Some([ok |-> FALSE, err |-> "Unknown format"])
    /\ imported = <<>>

\* The symbols of the index of the host that holds the files h and the
\* imported symbols syms.
IndexOf(h, syms) == Range(all_symbols(fs, metadata, h) \o syms)

\* A call of import_model_into_host returns.
Importing == pc = "import_host" /\ calls' = calls + 1

\* C15: a call of import_model_into_host that succeeds removes no symbol
\* from the index of the host, whatever was loaded or imported before, and
\* returns the numbers of elements and of relationships of the model it
\* decoded; a call that fails leaves the host as it was.
C15_ImportIsAdditive ==
    [][Importing =>
        /\ IndexOf(host, imported) \subseteq IndexOf(host', imported')
        /\ IF result'[1].ok
           THEN /\ decoded' = Some(fs.content)
                /\ result'[1].element_count = Len(fs.content.elements)
                /\ result'[1].relationship_count = Len(fs.content.relationships)
                /\ \A i \in 1..Len(fs.content.elements) :
                      \E sym \in IndexOf(host', imported') :
                          /\ sym.qualified_name = fs.content.elements[i].qualified_name
                          /\ sym.element_id = Some(fs.content.elements[i].id.of)
           ELSE IndexOf(host', imported') = IndexOf(host, imported)]_vars

\* C15, witness: the standard library is loaded, two calls have succeeded
\* on a model of two elements and two relationships, and the index holds
\* the symbol of the library and the imported ones.
C15_Witness ==
    /\ cli.mode = "import_workspace"
    /\ pc = "done"
    /\ calls = 2
    /\ result[1].ok
    /\ result[1].element_count = 2
    /\ result[1].relationship_count = 2
    /\ \E i \in 1..Len(index) : FromStdlib(index[i])
    /\ Len(index) = 5

\* One model was imported into the host and the host was exported.
RoundTripped ==
    /\ cli.mode = "import_workspace" /\ cli.export
    /\ pc = "done"
    /\ calls = 1

C17_SidecarRestoresIds ==
    /\ (cli.mode = "decompile" /\ result # None /\ result[1].ok) =>
          /\ decoded # None
          /\ result[1].metadata_json =
                {[qualified_name |-> decoded[1].elements[i].qualified_name,
                  id |-> decoded[1].elements[i].id.of] :
                    i \in 1..Len(decoded[1].elements)}
          /\ Len(result[1].sysml_text) = result[1].element_count
    /\ (cli.mode = "export" /\ pc = "done" /\ fs.sidecar) =>
          \A j \in 1..Len(output[1].elements) :
              \A e \in Sidecar :
                  output[1].elements[j].qualified_name = e.qualified_name =>
                      output[1].elements[j].id = [minted |-> FALSE, of |-> e.id]

\* C17, witness: w/a.sysml was exported with the library loaded and a
\* sidecar next to it: its element carries u1, the element of the library
\* a minted identity.
C17_Witness ==
    /\ cli.mode = "export" /\ pc = "done"
    /\ fs.sidecar
    /\ cli.input = FileA
    /\ Len(output[1].elements) = 2
    /\ \E j \in 1..2 :
          /\ output[1].elements[j].qualified_name = FileName(FileA)
          /\ output[1].elements[j].id = [minted |-> FALSE, of |-> U1]
    /\ \E j \in 1..2 : output[1].elements[j].id.minted

\* The identities of the elements of the model m.
IdsOf(m) == {m.elements[i].id : i \in 1..Len(m.elements)}

\* The ends of the relationships of m that are not the identity of an
\* element of m: the relationship, and which of its two ends.
Dangling(m) ==
    {<<k, "source">> : k \in {n \in 1..Len(m.relationships) :
                                m.relationships[n].source \notin IdsOf(m)}}
        \cup {<<k, "target">> : k \in {n \in 1..Len(m.relationships) :
                                      m.relationships[n].target \notin IdsOf(m)}}

\* C18: import_model succeeds whenever the model is decoded, however many
\* ends of relationships dangle; error_count is the number of dangling
\* ends, a relationship with both ends dangling counting twice, and there
\* is one warning for each, so error_count is the number of messages.
C18_ValidationCountsEnds ==
    (cli.mode = "import" /\ result # None) =>
        IF decoded = None
        THEN pc = "failed" /\ ~result[1].ok
        ELSE /\ pc = "done"
             /\ result[1].ok
             /\ result[1].error_count = Cardinality(Dangling(decoded[1]))
             /\ Len(result[1].messages) = result[1].error_count
             /\ \A i \in 1..Len(result[1].messages) :
                   /\ result[1].messages[i].level = "warning"
                   /\ result[1].messages[i].of \notin IdsOf(decoded[1])
             /\ result[1].element_count = Len(decoded[1].elements)
             /\ result[1].relationship_count = Len(decoded[1].relationships)

\* C18, witness: a model of one element and two relationships, one with
\* both ends dangling and one with its target dangling, is imported with
\* success and three issues.
C18_Witness ==
    /\ cli.mode = "import" /\ pc = "done"
    /\ decoded # None
    /\ Len(decoded[1].elements) = 1
    /\ decoded[1].relationships =
          <<[source |-> Original(U9), target |-> Original(U9)],
            [source |-> Original(U1), target |-> Original(U2)]>>
    /\ result[1].ok
    /\ result[1].error_count = 3
    /\ Len(result[1].messages) = 3

\* C19: after an import that succeeded, into a workspace or for validation
\* only, either both ends of every relationship of the model are
\* identities of its elements, or the result is flagged: its issue count
\* is not zero and it carries a warning.
C19_DanglingIsFlagged ==
    (/\ ImportReturned /\ result[1].ok /\ decoded # None
     /\ cli.input = ModelXmi /\ cli.override = None) =>
        \/ Dangling(decoded[1]) = {}
        \/ /\ result[1].error_count > 0
           /\ \E i \in 1..Len(result[1].messages) : result[1].messages[i].level = "warning"

\* C20: decompile_model returns the text and the metadata together, or an
\* error; and when the decompile command has ended, it has written either
\* nothing, or the text file and the metadata.json file of the same base
\* name, both.
C20_MatchedPair ==
    (cli.mode = "decompile" /\ pc \in {"done", "failed"}) =>
        /\ result # None
        /\ result[1].ok => Len(result[1].sysml_text) = Cardinality(result[1].metadata_json)
        /\ \/ written = {}
           \/ \E t \in written :
                 /\ with_extension(t, MetadataExt) # t
                 /\ written = {t, with_extension(t, MetadataExt)}

\* The engine reported a diagnostic of severity Error for a registered file.
ErrorReported ==
    \E q \in DOMAIN checked : \E j \in 1..Len(checked[q]) : checked[q][j].severity = "Error"

\* C21: in analysis mode, with --json or without, when run_analysis
\* succeeded the exit code is a failure if and only if at least one
\* diagnostic of severity Error was reported; warnings, infos and hints
\* alone never make it a failure.
C21_ExitCodeFollowsErrors ==
    (cli.mode = "analysis" /\ exit # None /\ result # None /\ result[1].ok) =>
        /\ exit = Some("FAILURE") <=> ErrorReported
        /\ exit = Some("SUCCESS") <=> ~ErrorReported

\* C21, witness: under --json a run whose only diagnostic is a warning has
\* ended with success.
C21_Witness ==
    /\ cli.mode = "analysis"
    /\ "json" \in cli.flags
    /\ result # None /\ result[1].ok
    /\ Len(diagnostics) = 1
    /\ diagnostics[1].severity = "Warning"
    /\ exit = Some("SUCCESS")

\* The output path was given, the command came to write it, and the file
\* was not written.
OutputNotWritten ==
    /\ cli.output # None
    /\ WritesOutput(cli, pc)
    /\ cli.output[1] \notin written

\* C22: every operational failure sets a failure exit code: in every mode,
\* once main has returned, a path, IO or format error, an output file that
\* cannot be written included, has ended the run with a failure.
C22_FailuresSetExitCode ==
    (exit # None /\ (pc = "failed" \/ OutputNotWritten)) => exit = Some("FAILURE")

\* C23: the import that only validates ends with a failure exit code
\* exactly when the import failed or its result has error_count > 0; the
\* warnings are returned in an Ok result, not as an error; and it ends with
\* success when the model is decoded and no end of a relationship dangles.
C23_ValidationDrivesExitCode ==
    (cli.mode = "import" /\ exit # None) =>
        /\ result # None
        /\ exit = Some("FAILURE") <=> (~result[1].ok \/ result[1].error_count > 0)
        /\ decoded # None =>
              /\ result[1].ok /\ pc = "done"
              /\ exit = Some("SUCCESS") <=> Dangling(decoded[1]) = {}

\* C23, witness: a model with one dangling end was imported; the call
\* returned Ok with one issue, and the command ended with a failure.
C23_Witness ==
    /\ cli.mode = "import" /\ pc = "done"
    /\ result[1].ok
    /\ result[1].error_count = 1
    /\ Cardinality(Dangling(decoded[1])) = 1
    /\ exit = Some("FAILURE")

\* A call that loads source files has ended, and its input path is neither
\* an existing regular file nor an existing directory.
MissingInput ==
    /\ cli.mode \in {"analysis", "export", "export_ast"}
    /\ pc \in {"done", "failed"}
    /\ ~IsFile(fs, cli.input) /\ ~IsDir(fs, cli.input)

\* The error of the call says that a path does not exist.
DoesNotExist ==
    result \in {Err("Path does not exist"), Err("Stdlib path does not exist")}

\* C24, as claimed: an input path that is neither an existing regular file
\* nor an existing directory makes run_analysis, and every other operation
\* that loads sources, fail with a 'does not exist' error and return no
\* result.
C24_MissingInputFails ==
    MissingInput => (pc = "failed" /\ DoesNotExist)

\* C24, amended: such an input path makes the call fail and return no
\* result.  The standard library, when requested, is loaded first: if its
\* load fails on a traversal error or on a file that cannot be read, that
\* error is the one returned; in every other case the error is a 'does
\* not exist' error.
C24_MissingInputFailsAfterStdlib ==
    MissingInput =>
        /\ pc = "failed"
        /\ result # None /\ ~result[1].ok
        /\ output = None /\ index = <<>> /\ diagnostics = <<>>
        /\ IF Len(walked) > 0 /\ Failing(walked[Len(walked)])
           THEN /\ cli.load_stdlib
                /\ result \in {Err("Walk error"), Err("Failed to read")}
           ELSE /\ DoesNotExist
                /\ StdlibErr <=> /\ cli.load_stdlib
                                 /\ cli.stdlib_path # None
                                 /\ ~Exists(fs, cli.stdlib_path[1])

\* C24, witness: the standard library was loaded, the input path does not
\* exist, and the call has failed on it.
C24_Witness ==
    /\ MissingInput
    /\ cli.load_stdlib
    /\ host # <<>>
    /\ pc = "failed"
    /\ result = Err("Path does not exist")

\* C25: in every export the identities are restored before the model is
\* filtered or encoded: the model handed to the codec holds, for every
\* symbol that carries an original identity, that identity and not a
\* minted one; and in export_model the sidecar, when there is one, is
\* loaded before the index is built and the symbols are collected, so the
\* symbols of the index carry the identities of the sidecar.
C25_RestoreBeforeEncoding ==
    /\ (cli.mode = "export" /\ output # None) =>
          \A j \in 1..Len(output[1].elements) : \A i \in 1..Len(index) :
              (/\ index[i].qualified_name = output[1].elements[j].qualified_name
               /\ index[i].element_id # None) =>
                  output[1].elements[j].id =
                      [minted |-> FALSE, of |-> index[i].element_id[1]]
    /\ (cli.mode = "export" /\ pc \in {"export", "done"} /\ fs.sidecar) =>
          /\ metadata = Sidecar
          /\ \A i \in 1..Len(index) : \A e \in Sidecar :
                index[i].qualified_name = e.qualified_name =>
                    index[i].element_id = Some(e.id)

\* C25, witness: export_model has built the index of a directory next to
\* a sidecar and is about to encode: the symbol the sidecar names carries
\* its identity, another symbol carries none, and nothing is encoded yet.
C25_Witness ==
    /\ cli.mode = "export" /\ pc = "export"
    /\ fs.sidecar
    /\ cli.input = DirW
    /\ output = None
    /\ \E i \in 1..Len(index) : index[i].element_id = Some(U1)
    /\ \E i \in 1..Len(index) : index[i].element_id = None

\* The files run_analysis has to register: the sources of the standard
\* library it resolved, and the input file or the sources under the input
\* directory.
ToRegister ==
    LET lib == ResolveStdlib(fs, cli.stdlib_path)
    IN  (IF cli.load_stdlib /\ lib.ok /\ lib.dir # None
         THEN SourcesUnder(lib.dir[1]) ELSE {})
          \cup (IF IsFile(fs, cli.input) THEN {cli.input} ELSE SourcesUnder(cli.input))

\* C26: in run_analysis the diagnostics are aggregated only after all the
\* loads: when check_file has been asked, every file of the standard
\* library and of the input is registered and no entry of a walk is
\* pending, the index holds the symbols of every registered file, each
\* registered file was asked about, and no file is registered afterwards.
C26_AggregationAfterLoads ==
    /\ [](Collected =>
            /\ walk = <<>>
            /\ ToRegister \subseteq Range(host)
            /\ DOMAIN checked = Range(host)
            /\ \A q \in Range(host) :
                  ~Is(fs, q, "empty") => \E i \in 1..Len(index) : index[i].file = q)
    /\ [][(cli.mode = "analysis" /\ host' # host) =>
            (/\ pc \in {"input", "walk"}
             /\ pc' \notin {"collect", "result", "done"}
             /\ DOMAIN checked = {} /\ DOMAIN checked' = {})]_vars
    /\ [][(cli.mode = "analysis" /\ checked' # checked) =>
            (pc = "collect" /\ host' = host /\ index' = index)]_vars

\* C26, witness: the standard library and a directory of two sources are
\* loaded, and the diagnostics of the three files are collected; one of
\* them is reported for the file that was registered first.
C26_Witness ==
    /\ Collected
    /\ cli.load_stdlib
    /\ Len(host) = 3
    /\ Len(index) = 3
    /\ Len(diagnostics) = 1
    /\ diagnostics[1].file = host[1]
    /\ FromStdlib([file |-> host[1]])

\* The registered files whose path does not contain sysml.library.
UserPaths == {q \in Range(host) : ~Contains(q, SysmlLibrary)}

\* C27: the AST export lists exactly one entry per registered file whose
\* path does not contain sysml.library; a file without symbols has an
\* entry with an empty list of symbols; no file of the standard library
\* appears; and the entries are in ascending order of path.
C27_AstListsUserFiles ==
    (cli.mode = "export_ast" /\ pc = "done") =>
        LET files == result[1].files
        IN  /\ result[1].ok
            /\ {files[i].path : i \in 1..Len(files)} = UserPaths
            /\ Len(files) = Cardinality(UserPaths)
            /\ \A i \in 1..Len(files) :
                  /\ Is(fs, files[i].path, "empty") => files[i].symbols = <<>>
                  /\ \A d \in LibDirs : ~Under(files[i].path, d)
            /\ \A i, j \in 1..Len(files) :
                  i < j => StrCmp(files[i].path, files[j].path) < 0

\* C28: a call of import_model_into_host that fails, on reading the file,
\* on resolving the format or on decoding, returns its error before any
\* symbol is added: the files and the symbols of the host are what they
\* were before the call.
C28_FailedImportLeavesHost ==
    [][(Importing /\ ~result'[1].ok) =>
        /\ host' = host
        /\ imported' = imported
        /\ index' = index
        /\ metadata' = metadata
        /\ decoded' = None]_vars

\* C28, witness: the host holds a file of the standard library, and the
\* call has failed on decoding the bytes with the codec the override named.
C28_Witness ==
    /\ cli.mode = "import_workspace"
    /\ pc = "failed"
    /\ calls = 1
    /\ host # <<>>
    /\ imported = <<>>
    /\ codec # None
    /\ result = Some([ok |-> FALSE, err |-> "Decode error"])

\* The positions of each pipeline, and the field that tells the value it
\* returns from the values of the others.
StepsOf(m) ==
    {"start", "done", "failed"} \cup
        (IF m = "decompile" THEN {"write"}
         ELSE IF m = "import" THEN {}
         ELSE IF m = "import_workspace" THEN {"import_host", "analysis", "export_host"}
         ELSE IF m = "export" THEN {"input", "walk", "metadata", "analysis", "export"}
         ELSE IF m = "export_ast" THEN {"input", "walk", "analysis", "export_ast"}
         ELSE {"input", "walk", "analysis", "collect", "result"})

FieldOf(m) ==
    IF m = "decompile" THEN "sysml_text"
    ELSE IF m \in {"import", "import_workspace"} THEN "messages"
    ELSE IF m = "export" THEN "model"
    ELSE IF m = "export_ast" THEN "files"
    ELSE "diagnostics"

\* Only the pipeline m has run: the run is at one of its positions, what
\* it returned is a value of m, and nothing another pipeline does is done.
RanOnly(m) ==
    /\ pc \in StepsOf(m)
    /\ (result # None /\ result[1].ok) => FieldOf(m) \in DOMAIN result[1]
    /\ m \in {"decompile", "import"} => (host = <<>> /\ index = <<>> /\ calls = 0)
    /\ m = "import" => written = {}
    /\ m # "decompile" => written \subseteq {cli.output[i] : i \in 1..Len(cli.output)}
    /\ m \in {"export", "export_ast", "analysis"} => (decoded = None /\ calls = 0)
    /\ m # "analysis" => (DOMAIN checked = {} /\ diagnostics = <<>>)
    /\ m \notin {"export", "import_workspace"} => output = None
    /\ m = "import_workspace" =>
          /\ output # None => "export" \in cli.flags
          /\ (pc = "done" /\ "export" \in cli.flags) => output # None
          /\ pc = "done" => calls >= 1

\* C29: an invocation runs exactly one pipeline, to completion, chosen by
\* the priority decompile, import, import into a workspace (followed by an
\* export from that workspace only when an export format is given),
\* interchange export, AST export, analysis; a pipeline of lower priority
\* never runs when a flag of higher priority is set; and once main has
\* returned nothing runs.
C29_OnePipelineByPriority ==
    /\ [](pc # "main" =>
            LET set(x) == x \in cli.flags
            IN  IF set("decompile") THEN RanOnly("decompile")
                ELSE IF set("import") THEN RanOnly("import")
                ELSE IF set("import_workspace") THEN RanOnly("import_workspace")
                ELSE IF set("export") THEN RanOnly("export")
                ELSE IF set("export_ast") THEN RanOnly("export_ast")
                ELSE RanOnly("analysis"))
    /\ [](exit # None => pc \in {"done", "failed"})
    /\ [][exit = None /\ cli'.flags = cli.flags]_vars

\* C29, witness: every mode flag is set, and the decompile command alone
\* has run, to its end.
C29_Witness ==
    /\ cli.flags = Flags
    /\ pc = "done"
    /\ exit = Some("SUCCESS")
    /\ "sysml_text" \in DOMAIN result[1]
    /\ Cardinality(written) = 2
    /\ host = <<>> /\ output = None

\* x is the diagnostic d of the engine, reported for the file q: it is
\* tagged with q, keeps severity, message and code, and its positions are
\* those of d, 1-indexed.
Reports(x, q, d) ==
    /\ x.file = q
    /\ x.severity = d.severity /\ x.message = d.message /\ x.code = d.code
    /\ x.line = d.start_line + 1 /\ x.col = d.start_col + 1
    /\ x.end_line = d.end_line + 1 /\ x.end_col = d.end_col + 1

\* C30: aggregation neither drops nor invents diagnostics: what
\* collect_diagnostics returns is a permutation of the diagnostics the
\* engine gave for the registered files, each tagged with the path of the
\* file it was asked for and keeping its severity, message and code.
C30_AggregationIsPermutation ==
    Collected =>
        /\ \A i \in 1..Len(diagnostics) :
              /\ diagnostics[i].file \in Range(host)
              /\ \E j \in 1..Len(checked[diagnostics[i].file]) :
                    Reports(diagnostics[i], diagnostics[i].file,
                            checked[diagnostics[i].file][j])
        /\ \A q \in Range(host) : \A j \in 1..Len(checked[q]) :
              Cardinality({i \in 1..Len(diagnostics) :
                              Reports(diagnostics[i], q, checked[q][j])})
                = Cardinality({k \in 1..Len(checked[q]) : checked[q][k] = checked[q][j]})

\* C30, witness: the engine gave two diagnostics of different severity at
\* one position of one file, and another file none; both are returned.
C30_Witness ==
    /\ Collected
    /\ Len(host) = 2
    /\ Len(diagnostics) = 2
    /\ diagnostics[1].file = diagnostics[2].file
    /\ diagnostics[1].line = diagnostics[2].line
    /\ diagnostics[1].col = diagnostics[2].col
    /\ diagnostics[1].severity # diagnostics[2].severity

====
